---- MODULE Spec2Model ----
(***************************************************************************)
(* Precise decimal arithmetic of @sifx/math-utils (src/unnamed/part_002).  *)
(*                                                                         *)
(* A decimal string is a sequence of one-character strings, e.g. "-2.5"    *)
(* is <<"-", "2", ".", "5">>.  A BigInt is a TLA+ integer.  A thrown       *)
(* exception is the sequence <<"throw", class, message>>.                  *)
(***************************************************************************)
EXTENDS Integers, Sequences, FiniteSets, TLC

VARIABLES pc, args, result

vars == <<pc, args, result>>

-----------------------------------------------------------------------------
(* Bounds of the model *)

\* Longest integer part and longest fraction part of a generated operand.
MaxIntLen == 2
MaxFracLen == 2
\* Largest precision handed to preciseDivide.
MaxPrecision == 2
\* Most digits (integer + fraction, as concatenated by the code) of an
\* operand of preciseMultiply: keeps the product inside TLC's integers.
MaxMulDigits == 3
\* Longest fraction part of the operands of the three-operand
\* specification (their integer part is one digit).
MaxAssocFracLen == 2

\* Longest fraction part of a generated argument of preciseRound (its
\* integer part is one digit) and largest decimalPlaces handed to it.
MaxRoundFracLen == 3
MaxDecimalPlaces == 2

\* Most values handed to an aggregate function.
MaxValues == 2
\* Most parts handed to preciseDistribute.
MaxParts == 4
\* Largest ratio and most ratios handed to preciseAllocate.
MaxRatio == 3
MaxRatios == 3
\* Longest fraction of a generated operand of the percentage functions.
MaxPercentFracLen == 1
\* Longest fraction, and most places, of the pairs of roundings compared.
MaxPairFracLen == 2
\* Largest generated value and longest generated list handed to percentile.
MaxPercentileValue == 2
MaxPercentileLen == 3

\* The digits generated operands are made of.
Alphabet == {"0", "5"}

\* The digits generated arguments of preciseRound are made of: an even and
\* an odd digit below 5, the tie digit, and a digit above 5 that carries.
RoundAlphabet == {"0", "4", "5", "9"}

-----------------------------------------------------------------------------
(* JavaScript string and BigInt primitives *)

DigitChars == <<"0", "1", "2", "3", "4", "5", "6", "7", "8", "9">>

\* the digit a character spells
DigitValues == [ch \in {DigitChars[i] : i \in 1..10} |->
                   (CHOOSE i \in 1..10 : DigitChars[i] = ch) - 1]

IsDigit(ch) == ch \in DOMAIN DigitValues

DigitVal(ch) == DigitValues[ch]

Min2(x, y) == IF x < y THEN x ELSE y

Max2(x, y) == IF x > y THEN x ELSE y

\* String.prototype.startsWith for a one-character prefix
StartsWith(s, ch) == Len(s) > 0 /\ s[1] = ch

\* String.prototype.slice(b, e): negative indices count from the end
JsSlice(s, b, e) ==
    LET from == IF b < 0 THEN Max2(Len(s) + b, 0) ELSE Min2(b, Len(s))
        to   == IF e < 0 THEN Max2(Len(s) + e, 0) ELSE Min2(e, Len(s))
    IN  SubSeq(s, from + 1, to)

\* String.prototype.slice(b)
JsSliceFrom(s, b) == JsSlice(s, b, Len(s))

RECURSIVE TrimStart(_)
TrimStart(s) ==
    IF Len(s) > 0 /\ s[1] = " " THEN TrimStart(Tail(s)) ELSE s

RECURSIVE TrimEnd(_)
TrimEnd(s) ==
    IF Len(s) > 0 /\ s[Len(s)] = " "
    THEN TrimEnd(SubSeq(s, 1, Len(s) - 1))
    ELSE s

\* String.prototype.trim
Trim(s) == TrimEnd(TrimStart(s))

RECURSIVE PadEnd(_, _)
\* String.prototype.padEnd(n, '0')
PadEnd(s, n) == IF Len(s) >= n THEN s ELSE PadEnd(Append(s, "0"), n)

RECURSIVE PadStart(_, _)
\* String.prototype.padStart(n, '0')
PadStart(s, n) == IF Len(s) >= n THEN s ELSE PadStart(<<"0">> \o s, n)

RECURSIVE StripTrailingZeros(_)
\* String.prototype.replace(/0+$/, '')
StripTrailingZeros(s) ==
    IF Len(s) > 0 /\ s[Len(s)] = "0"
    THEN StripTrailingZeros(SubSeq(s, 1, Len(s) - 1))
    ELSE s

\* Positions of the '.' characters of s
DotPositions(s) == {i \in 1..Len(s) : s[i] = "."}

MinOf(S) == CHOOSE x \in S : \A y \in S : x <= y

\* String.prototype.split('.') : the list of the pieces between the dots
RECURSIVE SplitDot(_)
SplitDot(s) ==
    IF DotPositions(s) = {}
    THEN <<s>>
    ELSE LET d == MinOf(DotPositions(s))
         IN  <<SubSeq(s, 1, d - 1)>> \o SplitDot(SubSeq(s, d + 1, Len(s)))

\* x || '0' for x a string or undefined (a missing array element): '' and
\* undefined are both falsy
OrZero(parts, i) ==
    IF i <= Len(parts) /\ parts[i] # <<>> THEN parts[i] ELSE <<"0">>

RECURSIVE ParseNat(_)
\* the natural number a run of digits spells
ParseNat(s) ==
    IF s = <<>>
    THEN 0
    ELSE 10 * ParseNat(SubSeq(s, 1, Len(s) - 1)) + DigitVal(s[Len(s)])

\* BigInt(string) for an optional '-' followed by digits
BigInt(s) == IF StartsWith(s, "-") THEN 0 - ParseNat(Tail(s)) ELSE ParseNat(s)

RECURSIVE NatToString(_)
NatToString(n) ==
    IF n < 10
    THEN <<DigitChars[n + 1]>>
    ELSE NatToString(n \div 10) \o <<DigitChars[(n % 10) + 1]>>

\* BigInt.prototype.toString
BigIntToString(n) ==
    IF n < 0 THEN <<"-">> \o NatToString(0 - n) ELSE NatToString(n)

RECURSIVE Pow10(_)
\* BigInt(10) ** BigInt(n)
Pow10(n) == IF n = 0 THEN 1 ELSE 10 * Pow10(n - 1)

\* throw new <class>(<message>)
Throw(class, message) == <<"throw", class, message>>

Threw(r) == Len(r) = 3 /\ r[1] = "throw"

-----------------------------------------------------------------------------
(* The functions of the library *)

\* parseToString for a string argument
parseToString(value) == Trim(value)

splitDecimal(value) ==
    LET trimmed    == Trim(value)
        isNegative == StartsWith(trimmed, "-")
        absolute   == IF isNegative THEN JsSliceFrom(trimmed, 1) ELSE trimmed
        parts      == SplitDot(absolute)
    IN  [integer    |-> OrZero(parts, 1),
         fraction   |-> OrZero(parts, 2),
         isNegative |-> isNegative /\ absolute # <<"0">>]

\* (isNegative ? '-' : '') + rest
Signed(isNegative, rest) == IF isNegative THEN <<"-">> \o rest ELSE rest

\* Seeded fault: trailing fraction zeros are kept
FormatScaledUntrimmed(resultInt, fractionLength) ==
    LET resultStr  == BigIntToString(resultInt)
        isNegative == StartsWith(resultStr, "-")
        absolute   == IF isNegative THEN JsSliceFrom(resultStr, 1) ELSE resultStr
        paddedAbsolute == PadStart(absolute, fractionLength + 1)
    IN  IF fractionLength = 0
        THEN Signed(isNegative, absolute)
        ELSE Signed(isNegative,
                    JsSlice(paddedAbsolute, 0, 0 - fractionLength)
                        \o <<".">>
                        \o JsSliceFrom(paddedAbsolute, 0 - fractionLength))

\* The tail shared by preciseAdd and preciseMultiply: re-insert the decimal
\* point fractionLength digits from the right of the BigInt result.
FormatScaled(resultInt, fractionLength) ==
    LET resultStr  == BigIntToString(resultInt)
        isNegative == StartsWith(resultStr, "-")
        absolute   == IF isNegative THEN JsSliceFrom(resultStr, 1) ELSE resultStr
    IN  IF fractionLength = 0
        THEN Signed(isNegative, absolute)
        ELSE LET paddedAbsolute == PadStart(absolute, fractionLength + 1)
                 sliced         == JsSlice(paddedAbsolute, 0, 0 - fractionLength)
                 integerPart    == IF sliced # <<>> THEN sliced ELSE <<"0">>
                 fractionPart   ==
                     StripTrailingZeros(
                         JsSliceFrom(paddedAbsolute, 0 - fractionLength))
             IN  IF fractionPart # <<>>
                 THEN Signed(isNegative, integerPart \o <<".">> \o fractionPart)
                 ELSE Signed(isNegative, integerPart)

\* Seeded fault: the fractions are not padded to a common length
preciseAddUnpadded(a, b) ==
    LET aParts == splitDecimal(parseToString(a))
        bParts == splitDecimal(parseToString(b))
        maxFractionLength == Max2(Len(aParts.fraction), Len(bParts.fraction))
        aInt == BigInt(Signed(aParts.isNegative,
                              aParts.integer \o aParts.fraction))
        bInt == BigInt(Signed(bParts.isNegative,
                              bParts.integer \o bParts.fraction))
    IN  FormatScaled(aInt + bInt, maxFractionLength)

\* Seeded fault: the fractions are padded on the left (padStart for padEnd)
preciseAddLeftPadded(a, b) ==
    LET aParts == splitDecimal(parseToString(a))
        bParts == splitDecimal(parseToString(b))
        maxFractionLength == Max2(Len(aParts.fraction), Len(bParts.fraction))
        aFraction == PadStart(aParts.fraction, maxFractionLength)
        bFraction == PadStart(bParts.fraction, maxFractionLength)
        aInt == BigInt(Signed(aParts.isNegative, aParts.integer \o aFraction))
        bInt == BigInt(Signed(bParts.isNegative, bParts.integer \o bFraction))
    IN  FormatScaled(aInt + bInt, maxFractionLength)

preciseAdd(a, b) ==
    LET aParts == splitDecimal(parseToString(a))
        bParts == splitDecimal(parseToString(b))
        maxFractionLength == Max2(Len(aParts.fraction), Len(bParts.fraction))
        aFraction == PadEnd(aParts.fraction, maxFractionLength)
        bFraction == PadEnd(bParts.fraction, maxFractionLength)
        aInt == BigInt(Signed(aParts.isNegative, aParts.integer \o aFraction))
        bInt == BigInt(Signed(bParts.isNegative, bParts.integer \o bFraction))
    IN  FormatScaled(aInt + bInt, maxFractionLength)

preciseSubtract(a, b) ==
    LET bStr     == parseToString(b)
        negatedB == IF StartsWith(bStr, "-")
                    THEN JsSliceFrom(bStr, 1)
                    ELSE <<"-">> \o bStr
    IN  preciseAdd(a, negatedB)

\* Seeded fault: the point is re-inserted at the longer fraction's length
preciseMultiplyMaxFraction(a, b) ==
    LET aParts == splitDecimal(parseToString(a))
        bParts == splitDecimal(parseToString(b))
        aInt == BigInt(Signed(aParts.isNegative,
                              aParts.integer \o aParts.fraction))
        bInt == BigInt(Signed(bParts.isNegative,
                              bParts.integer \o bParts.fraction))
    IN  FormatScaled(aInt * bInt,
                     Max2(Len(aParts.fraction), Len(bParts.fraction)))

preciseMultiply(a, b) ==
    LET aParts == splitDecimal(parseToString(a))
        bParts == splitDecimal(parseToString(b))
        aFractionLength == Len(aParts.fraction)
        bFractionLength == Len(bParts.fraction)
        totalFractionLength == aFractionLength + bFractionLength
        aInt == BigInt(Signed(aParts.isNegative,
                              aParts.integer \o aParts.fraction))
        bInt == BigInt(Signed(bParts.isNegative,
                              bParts.integer \o bParts.fraction))
    IN  FormatScaled(aInt * bInt, totalFractionLength)

\* '0'.repeat(n), n >= 0
Zeros(n) == [i \in 1..n |-> "0"]

RECURSIVE StripLeadingZeros(_)
\* the spelling BigInt.prototype.toString gives a run of digits
StripLeadingZeros(s) ==
    IF Len(s) > 1 /\ s[1] = "0" THEN StripLeadingZeros(Tail(s)) ELSE s

RECURSIVE LongDivide(_, _, _)
\* BigInt division of the natural number spelled by digits (after the
\* remainder rem of the digits before them) by divisor > 0: the quotient's
\* digits, one per dividend digit.  The dividend, scaled by 10 ** precision,
\* may exceed any machine integer; the divisor does not.
LongDivide(digits, divisor, rem) ==
    IF digits = <<>>
    THEN <<>>
    ELSE LET cur == rem * 10 + DigitVal(Head(digits))
         IN  <<DigitChars[(cur \div divisor) + 1]>>
                 \o LongDivide(Tail(digits), divisor, cur % divisor)

\* the digits of dividend / divisor on BigInt, for runs of digits.  A divisor
\* d * 10^z is divided out in two steps, floor(floor(n / 10^z) / d), so that
\* only d has to fit a machine integer; divisor is not zero.
BigIntDivide(dividend, divisor) ==
    LET significant == StripTrailingZeros(divisor)
        z   == Len(divisor) - Len(significant)
        cut == SubSeq(dividend, 1, Max2(Len(dividend) - z, 0))
    IN  IF cut = <<>>
        THEN <<"0">>
        ELSE StripLeadingZeros(LongDivide(cut, ParseNat(significant), 0))

\* preciseDivide after its zero-divisor guard
DivideQuotient(aParts, bParts, precision) ==
    LET isNegative == aParts.isNegative # bParts.isNegative
        maxFractionLength == Max2(Len(aParts.fraction), Len(bParts.fraction))
        aFraction == PadEnd(aParts.fraction, maxFractionLength)
        bFraction == PadEnd(bParts.fraction, maxFractionLength)
        \* BigInt(aParts.integer + aFraction) * 10n ** BigInt(precision)
        dividend == aParts.integer \o aFraction \o Zeros(precision)
        divisor == bParts.integer \o bFraction
    IN  IF StripTrailingZeros(divisor) = <<>>
        THEN \* BigInt division by 0n
             Throw("RangeError", "Division by zero")
        ELSE LET resultStr    == BigIntDivide(dividend, divisor)
                 paddedResult == PadStart(resultStr, precision + 1)
                 sliced       == JsSlice(paddedResult, 0, 0 - precision)
                 integerPart  == IF sliced # <<>> THEN sliced ELSE <<"0">>
                 fractionPart ==
                     StripTrailingZeros(JsSliceFrom(paddedResult, 0 - precision))
             IN  IF fractionPart # <<>>
                 THEN Signed(isNegative, integerPart \o <<".">> \o fractionPart)
                 ELSE Signed(isNegative, integerPart)

\* Seeded fault: the guard forgets that a missing fraction decomposes to '0'
preciseDivideEmptyFractionGuard(a, b, precision) ==
    LET aParts == splitDecimal(parseToString(a))
        bParts == splitDecimal(parseToString(b))
    IN  IF bParts.integer = <<"0">> /\ bParts.fraction = <<>>
        THEN Throw("Error", "Division by zero")
        ELSE DivideQuotient(aParts, bParts, precision)

preciseDivide(a, b, precision) ==
    LET aParts == splitDecimal(parseToString(a))
        bParts == splitDecimal(parseToString(b))
    IN  IF bParts.integer = <<"0">> /\ bParts.fraction = <<"0">>
        THEN Throw("Error", "Division by zero")
        ELSE DivideQuotient(aParts, bParts, precision)

\* Seeded fault: the sign of the difference is read the wrong way round
preciseCompareSwappedSign(a, b) ==
    LET diff  == preciseSubtract(a, b)
        parts == splitDecimal(diff)
    IN  IF parts.integer = <<"0">> /\ parts.fraction = <<"0">>
        THEN 0
        ELSE IF parts.isNegative THEN 1 ELSE 0 - 1

\* Seeded fault: the test for a zero difference is missing
preciseCompareNoZeroTest(a, b) ==
    IF splitDecimal(preciseSubtract(a, b)).isNegative THEN 0 - 1 ELSE 1

preciseCompare(a, b) ==
    LET diff  == preciseSubtract(a, b)
        parts == splitDecimal(diff)
    IN  IF parts.integer = <<"0">> /\ parts.fraction = <<"0">>
        THEN 0
        ELSE IF parts.isNegative THEN 0 - 1 ELSE 1

\* Seeded fault: a leading '-' is not removed
preciseNegateKeepsMinus(value) ==
    LET str == parseToString(value)
    IN  IF str = <<"0">> \/ str = <<"0", ".", "0">>
        THEN <<"0">>
        ELSE IF StartsWith(str, "-") THEN str ELSE <<"-">> \o str

preciseNegate(value) ==
    LET str == parseToString(value)
    IN  IF str = <<"0">> \/ str = <<"0", ".", "0">>
        THEN <<"0">>
        ELSE IF StartsWith(str, "-")
        THEN JsSliceFrom(str, 1)
        ELSE <<"-">> \o str

-----------------------------------------------------------------------------
(* The rounding engine *)

\* enum PrecisionRoundingMode
PrecisionRoundingMode ==
    {"UP", "DOWN", "CEIL", "FLOOR", "HALF_UP", "HALF_DOWN", "HALF_EVEN",
     "HALF_CEIL", "HALF_FLOOR"}

\* s[i] || '0' for a zero-based index i (undefined outside the string)
CharOrZero(s, i) == IF i + 1 \in 1..Len(s) THEN s[i + 1] ELSE "0"

\* Seeded fault: HALF_DOWN rounds a tie up, as HALF_UP does
ShouldRoundUpHalfDownAsHalfUp(mode, isNegative, nextDigit, hasMoreDigits, lastKeepDigit) ==
    CASE mode = "UP"         -> ~isNegative /\ (nextDigit > 0 \/ hasMoreDigits)
      [] mode = "DOWN"       -> FALSE
      [] mode = "CEIL"       -> ~isNegative /\ (nextDigit > 0 \/ hasMoreDigits)
      [] mode = "FLOOR"      -> isNegative /\ (nextDigit > 0 \/ hasMoreDigits)
      [] mode = "HALF_UP"    -> nextDigit >= 5
      [] mode = "HALF_DOWN"  -> nextDigit >= 5
      [] mode = "HALF_EVEN"  ->
             IF nextDigit > 5 THEN TRUE
             ELSE IF nextDigit = 5 /\ ~hasMoreDigits
                  THEN lastKeepDigit % 2 # 0
                  ELSE nextDigit = 5 /\ hasMoreDigits
      [] mode = "HALF_CEIL"  -> nextDigit >= 5 /\ ~isNegative
      [] mode = "HALF_FLOOR" -> nextDigit >= 5 /\ isNegative

\* Seeded fault: HALF_UP rounds up on a next digit of exactly 5 only
ShouldRoundUpOnlyAtFive(mode, isNegative, nextDigit, hasMoreDigits, lastKeepDigit) ==
    CASE mode = "UP"         -> ~isNegative /\ (nextDigit > 0 \/ hasMoreDigits)
      [] mode = "DOWN"       -> FALSE
      [] mode = "CEIL"       -> ~isNegative /\ (nextDigit > 0 \/ hasMoreDigits)
      [] mode = "FLOOR"      -> isNegative /\ (nextDigit > 0 \/ hasMoreDigits)
      [] mode = "HALF_UP"    -> nextDigit = 5
      [] mode = "HALF_DOWN"  ->
             nextDigit > 5 \/ (nextDigit = 5 /\ hasMoreDigits)
      [] mode = "HALF_EVEN"  ->
             IF nextDigit > 5 THEN TRUE
             ELSE IF nextDigit = 5 /\ ~hasMoreDigits
                  THEN lastKeepDigit % 2 # 0
                  ELSE nextDigit = 5 /\ hasMoreDigits
      [] mode = "HALF_CEIL"  -> nextDigit >= 5 /\ ~isNegative
      [] mode = "HALF_FLOOR" -> nextDigit >= 5 /\ isNegative

\* The switch over the rounding mode: the value of shouldRoundUp
ShouldRoundUp(mode, isNegative, nextDigit, hasMoreDigits, lastKeepDigit) ==
    CASE mode = "UP"         -> ~isNegative /\ (nextDigit > 0 \/ hasMoreDigits)
      [] mode = "DOWN"       -> FALSE
      [] mode = "CEIL"       -> ~isNegative /\ (nextDigit > 0 \/ hasMoreDigits)
      [] mode = "FLOOR"      -> isNegative /\ (nextDigit > 0 \/ hasMoreDigits)
      [] mode = "HALF_UP"    -> nextDigit >= 5
      [] mode = "HALF_DOWN"  ->
             nextDigit > 5 \/ (nextDigit = 5 /\ hasMoreDigits)
      [] mode = "HALF_EVEN"  ->
             IF nextDigit > 5 THEN TRUE
             ELSE IF nextDigit = 5 /\ ~hasMoreDigits
                  THEN lastKeepDigit % 2 # 0
                  ELSE nextDigit = 5 /\ hasMoreDigits
      [] mode = "HALF_CEIL"  -> nextDigit >= 5 /\ ~isNegative
      [] mode = "HALF_FLOOR" -> nextDigit >= 5 /\ isNegative

\* Seeded fault: after a round-up the fraction is not padded back to
\* decimalPlaces digits
RoundUpResultUnpadded(parts, keepDigits, decimalPlaces) ==
    IF decimalPlaces - 1 < 0
    THEN Throw("RangeError", "Invalid count value: -1")
    ELSE LET incrementValue ==
                 <<"0", ".">> \o Zeros(decimalPlaces - 1) \o <<"1">>
             rounded ==
                 preciseAdd(
                     Signed(parts.isNegative,
                            parts.integer \o <<".">> \o keepDigits),
                     IF parts.isNegative
                     THEN preciseNegate(incrementValue)
                     ELSE incrementValue)
             roundedParts == splitDecimal(rounded)
         IN  Signed(roundedParts.isNegative,
                    roundedParts.integer \o <<".">>
                        \o JsSlice(roundedParts.fraction, 0, decimalPlaces))

\* The "Round up" tail of preciseRound
RoundUpResult(parts, keepDigits, decimalPlaces) ==
    IF decimalPlaces - 1 < 0
    THEN \* '0'.repeat(-1)
         Throw("RangeError", "Invalid count value: -1")
    ELSE LET incrementValue ==
                 <<"0", ".">> \o Zeros(decimalPlaces - 1) \o <<"1">>
             rounded ==
                 preciseAdd(
                     Signed(parts.isNegative,
                            parts.integer \o <<".">> \o keepDigits),
                     IF parts.isNegative
                     THEN preciseNegate(incrementValue)
                     ELSE incrementValue)
             roundedParts == splitDecimal(rounded)
         IN  IF decimalPlaces = 0
             THEN Signed(roundedParts.isNegative, roundedParts.integer)
             ELSE Signed(roundedParts.isNegative,
                         roundedParts.integer \o <<".">>
                             \o JsSlice(PadEnd(roundedParts.fraction,
                                               decimalPlaces),
                                        0, decimalPlaces))

\* preciseRound after its decimalPlaces guard
RoundChecked(value, decimalPlaces, mode) ==
    LET parts == splitDecimal(parseToString(value))
    IN  IF Len(parts.fraction) <= decimalPlaces
        THEN \* No rounding needed
             IF decimalPlaces = 0
             THEN Signed(parts.isNegative, parts.integer)
             ELSE Signed(parts.isNegative,
                         parts.integer \o <<".">>
                             \o PadEnd(parts.fraction, decimalPlaces))
        ELSE LET keepDigits == JsSlice(parts.fraction, 0, decimalPlaces)
                 nextDigit ==
                     DigitVal(CharOrZero(parts.fraction, decimalPlaces))
                 hasMoreDigits ==
                     StripTrailingZeros(
                         JsSliceFrom(parts.fraction, decimalPlaces + 1)) # <<>>
                 lastKeepDigit ==
                     DigitVal(IF keepDigits # <<>>
                              THEN keepDigits[Len(keepDigits)]
                              ELSE parts.integer[Len(parts.integer)])
             IN  IF ~ShouldRoundUp(mode, parts.isNegative, nextDigit,
                                   hasMoreDigits, lastKeepDigit)
                 THEN IF decimalPlaces = 0
                      THEN Signed(parts.isNegative, parts.integer)
                      ELSE Signed(parts.isNegative,
                                  parts.integer \o <<".">> \o keepDigits)
                 ELSE RoundUpResult(parts, keepDigits, decimalPlaces)

\* Seeded fault: the decimalPlaces guard is missing
preciseRoundUnguarded(value, decimalPlaces, mode) ==
    RoundChecked(value, decimalPlaces, mode)

preciseRound(value, decimalPlaces, mode) ==
    IF decimalPlaces < 0
    THEN Throw("Error", "Decimal places must be non-negative")
    ELSE RoundChecked(value, decimalPlaces, mode)

-----------------------------------------------------------------------------
(* Derived operations *)

\* PRECISION.DEFAULT, the default precision of preciseDivide
PRECISION_DEFAULT == 20

\* DEFAULT_PRECISION_DECIMAL_PLACES
DEFAULT_PRECISION_DECIMAL_PLACES == 2

\* parseToString for a number argument that is a non-negative integer:
\* Number.prototype.toString
NumberToString(n) == BigIntToString(n)

preciseLessThan(a, b) == preciseCompare(a, b) < 0

preciseGreaterThan(a, b) == preciseCompare(a, b) > 0

\* preciseEquals(value, 0)
preciseIsZero(value) == preciseCompare(value, NumberToString(0)) = 0

\* preciseGreaterThan(value, 0)
preciseIsPositive(value) == preciseGreaterThan(value, NumberToString(0))

RECURSIVE MinReduce(_, _, _)
\* values.reduce((minVal, current) => ..., minVal) from index i on
MinReduce(values, i, minVal) ==
    IF i > Len(values)
    THEN minVal
    ELSE MinReduce(values, i + 1,
                   IF preciseLessThan(values[i], minVal)
                   THEN parseToString(values[i])
                   ELSE minVal)

preciseMin(values) ==
    IF Len(values) = 0
    THEN Throw("Error", "At least one value is required")
    ELSE MinReduce(values, 1, parseToString(values[1]))

RECURSIVE MaxReduce(_, _, _)
MaxReduce(values, i, maxVal) ==
    IF i > Len(values)
    THEN maxVal
    ELSE MaxReduce(values, i + 1,
                   IF preciseGreaterThan(values[i], maxVal)
                   THEN parseToString(values[i])
                   ELSE maxVal)

preciseMax(values) ==
    IF Len(values) = 0
    THEN Throw("Error", "At least one value is required")
    ELSE MaxReduce(values, 1, parseToString(values[1]))

RECURSIVE SumReduce(_, _, _)
SumReduce(values, i, total) ==
    IF i > Len(values)
    THEN total
    ELSE SumReduce(values, i + 1, preciseAdd(total, values[i]))

preciseSum(values) == SumReduce(values, 1, <<"0">>)

\* Seeded fault: the test for an empty argument list is missing
preciseAverageUnguarded(values) ==
    preciseDivide(preciseSum(values), NumberToString(Len(values)),
                  PRECISION_DEFAULT)

preciseAverage(values) ==
    IF Len(values) = 0
    THEN Throw("Error", "At least one value is required")
    ELSE preciseDivide(preciseSum(values), NumberToString(Len(values)),
                       PRECISION_DEFAULT)

\* Seeded fault: the quotient is computed to two fraction digits only
precisePercentageTwoPlaces(value, percent) ==
    preciseDivide(preciseMultiply(value, percent), NumberToString(100), 2)

precisePercentage(value, percent) ==
    preciseDivide(preciseMultiply(value, percent), NumberToString(100),
                  PRECISION_DEFAULT)

preciseAddPercentage(value, percent) ==
    preciseAdd(value, precisePercentage(value, percent))

preciseSubtractPercentage(value, percent) ==
    preciseSubtract(value, precisePercentage(value, percent))

\* A function returning a list of strings that throws: the list holding
\* the exception
ListThrow(exception) == <<exception>>

ThrewList(r) == Len(r) = 1 /\ Threw(r[1])

RECURSIVE DistributeLoop(_, _, _, _, _)
\* while (!preciseIsZero(remainder) && index < parts) { ... index++ }
\* The slots and the remainder of the next iteration are bound as values, as
\* the variables of the loop hold them.
DistributeLoop(results, remainder, increment, index, parts) ==
    IF ~preciseIsZero(remainder) /\ index < parts
    THEN IF preciseIsPositive(remainder)
         THEN CHOOSE r \in
                  {DistributeLoop(res, rem, increment, index + 1, parts) :
                      res \in {[results EXCEPT
                                   ![index + 1] = preciseAdd(@, increment)]},
                      rem \in {preciseSubtract(remainder, increment)}} : TRUE
         ELSE CHOOSE r \in
                  {DistributeLoop(res, rem, increment, index + 1, parts) :
                      res \in {[results EXCEPT
                                   ![index + 1] =
                                       preciseSubtract(@, increment)]},
                      rem \in {preciseAdd(remainder, increment)}} : TRUE
    ELSE results

\* const baseAmount = preciseRound(preciseDivide(amountStr, parts.toString(),
\* PRECISION_DEFAULT), decimalPlaces, HALF_EVEN), in a set so that what
\* follows binds it as a value
DistributeBase(amountStr, parts, decimalPlaces) ==
    {preciseRound(
         preciseDivide(amountStr, NumberToString(parts), PRECISION_DEFAULT),
         decimalPlaces, "HALF_EVEN")}

\* The exception thrown between the test of parts and the loop, <<>> if none
DistributeThrown(baseAmount, decimalPlaces) ==
    IF Threw(baseAmount)
    THEN baseAmount
    ELSE IF decimalPlaces - 1 < 0
    THEN \* '0'.repeat(-1), in the increment
         Throw("RangeError", "Invalid count value: -1")
    ELSE <<>>

\* const remainder = preciseSubtract(amountStr, total)
DistributeRemainder(amountStr, baseAmount, parts) ==
    preciseSubtract(amountStr,
                    preciseMultiply(baseAmount, NumberToString(parts)))

\* const increment = '0.' + '0'.repeat(decimalPlaces - 1) + '1'
DistributeIncrement(decimalPlaces) ==
    <<"0", ".">> \o Zeros(decimalPlaces - 1) \o <<"1">>

\* preciseDistribute from its base amount on
DistributeFrom(amountStr, baseAmount, parts, decimalPlaces) ==
    IF DistributeThrown(baseAmount, decimalPlaces) # <<>>
    THEN ListThrow(DistributeThrown(baseAmount, decimalPlaces))
    ELSE CHOOSE r \in
             {DistributeLoop([i \in 1..parts |-> baseAmount], remainder,
                             DistributeIncrement(decimalPlaces), 0, parts) :
                 remainder \in
                     {DistributeRemainder(amountStr, baseAmount, parts)}}
             : TRUE

preciseDistribute(amount, parts, decimalPlaces) ==
    IF parts <= 0
    THEN ListThrow(Throw("Error", "Parts must be greater than zero"))
    ELSE CHOOSE r \in
             {DistributeFrom(parseToString(amount), baseAmount, parts,
                             decimalPlaces) :
                 baseAmount \in DistributeBase(parseToString(amount), parts,
                                               decimalPlaces)} : TRUE

\* The state in which the loop is entered, from the base amount on
DistributeEnterFrom(amountStr, baseAmount, parts, decimalPlaces) ==
    IF DistributeThrown(baseAmount, decimalPlaces) # <<>>
    THEN [thrown    |-> DistributeThrown(baseAmount, decimalPlaces),
          results   |-> <<>>, remainder |-> <<>>, increment |-> <<>>,
          index     |-> 0]
    ELSE [thrown    |-> <<>>,
          results   |-> [i \in 1..parts |-> baseAmount],
          remainder |-> DistributeRemainder(amountStr, baseAmount, parts),
          increment |-> DistributeIncrement(decimalPlaces),
          index     |-> 0]

\* preciseDistribute up to its loop: the exception thrown on the way (<<>> if
\* none), or the slots, the remainder, the increment and the index with which
\* the loop is entered
DistributeEnter(amount, parts, decimalPlaces) ==
    IF parts <= 0
    THEN [thrown    |-> Throw("Error", "Parts must be greater than zero"),
          results   |-> <<>>, remainder |-> <<>>, increment |-> <<>>,
          index     |-> 0]
    ELSE CHOOSE r \in
             {DistributeEnterFrom(parseToString(amount), baseAmount, parts,
                                  decimalPlaces) :
                 baseAmount \in DistributeBase(parseToString(amount), parts,
                                               decimalPlaces)} : TRUE

\* !preciseIsZero(remainder) && index < parts
DistributeContinues(loop, parts) ==
    ~preciseIsZero(loop.remainder) /\ loop.index < parts

\* Seeded fault: every iteration adjusts the first slot
DistributeIterateFirstSlot(loop) ==
    IF preciseIsPositive(loop.remainder)
    THEN [loop EXCEPT
              !.results[1] = preciseAdd(@, loop.increment),
              !.remainder = preciseSubtract(@, loop.increment),
              !.index = @ + 1]
    ELSE [loop EXCEPT
              !.results[1] = preciseSubtract(@, loop.increment),
              !.remainder = preciseAdd(@, loop.increment),
              !.index = @ + 1]

\* one iteration of the loop of preciseDistribute
DistributeIterate(loop) ==
    IF preciseIsPositive(loop.remainder)
    THEN [loop EXCEPT
              !.results[loop.index + 1] = preciseAdd(@, loop.increment),
              !.remainder = preciseSubtract(@, loop.increment),
              !.index = @ + 1]
    ELSE [loop EXCEPT
              !.results[loop.index + 1] = preciseSubtract(@, loop.increment),
              !.remainder = preciseAdd(@, loop.increment),
              !.index = @ + 1]

RECURSIVE SumOf(_)
\* ratios.reduce((sum, r) => sum + r, 0)
SumOf(ratios) == IF ratios = <<>> THEN 0 ELSE Head(ratios) + SumOf(Tail(ratios))

\* The share of one ratio: the proportional amount, rounded
AllocateShare(amountStr, ratio, totalRatio, decimalPlaces) ==
    preciseRound(
        preciseDivide(preciseMultiply(amountStr, NumberToString(ratio)),
                      NumberToString(totalRatio), PRECISION_DEFAULT),
        decimalPlaces, "HALF_EVEN")

RECURSIVE AllocateLoop(_, _, _, _, _, _, _)
\* for (let i = 0; i < ratios.length - 1; i++) { ... }; results.push(remainder)
AllocateLoop(amountStr, ratios, totalRatio, decimalPlaces, i, results, remainder) ==
    IF i < Len(ratios) - 1
    THEN LET share == AllocateShare(amountStr, ratios[i + 1], totalRatio,
                                    decimalPlaces)
         IN  IF Threw(share)
             THEN ListThrow(share)
             ELSE AllocateLoop(amountStr, ratios, totalRatio, decimalPlaces,
                               i + 1, Append(results, share),
                               preciseSubtract(remainder, share))
    ELSE Append(results, remainder)

RECURSIVE AllocateAllRounded(_, _, _, _, _, _)
AllocateAllRounded(amountStr, ratios, totalRatio, decimalPlaces, i, results) ==
    IF i < Len(ratios)
    THEN AllocateAllRounded(
             amountStr, ratios, totalRatio, decimalPlaces, i + 1,
             Append(results, AllocateShare(amountStr, ratios[i + 1],
                                           totalRatio, decimalPlaces)))
    ELSE results

\* Seeded fault: the last slot gets its rounded share like the others,
\* not the remainder
preciseAllocateAllRounded(amount, ratios, decimalPlaces) ==
    IF Len(ratios) = 0
    THEN ListThrow(Throw("Error", "At least one ratio is required"))
    ELSE IF \E i \in 1..Len(ratios) : ratios[i] < 0
    THEN ListThrow(Throw("Error", "Ratios must be non-negative"))
    ELSE IF SumOf(ratios) = 0
    THEN ListThrow(Throw("Error", "Total ratio must be greater than zero"))
    ELSE AllocateAllRounded(parseToString(amount), ratios, SumOf(ratios),
                            decimalPlaces, 0, <<>>)

\* Seeded fault: the test for a negative ratio is missing
preciseAllocateNoNegativeTest(amount, ratios, decimalPlaces) ==
    IF Len(ratios) = 0
    THEN ListThrow(Throw("Error", "At least one ratio is required"))
    ELSE IF SumOf(ratios) = 0
    THEN ListThrow(Throw("Error", "Total ratio must be greater than zero"))
    ELSE LET amountStr == parseToString(amount)
         IN  AllocateLoop(amountStr, ratios, SumOf(ratios), decimalPlaces, 0,
                          <<>>, amountStr)

preciseAllocate(amount, ratios, decimalPlaces) ==
    IF Len(ratios) = 0
    THEN ListThrow(Throw("Error", "At least one ratio is required"))
    ELSE IF \E i \in 1..Len(ratios) : ratios[i] < 0
    THEN ListThrow(Throw("Error", "Ratios must be non-negative"))
    ELSE IF SumOf(ratios) = 0
    THEN ListThrow(Throw("Error", "Total ratio must be greater than zero"))
    ELSE LET amountStr == parseToString(amount)
         IN  AllocateLoop(amountStr, ratios, SumOf(ratios), decimalPlaces, 0,
                          <<>>, amountStr)

-----------------------------------------------------------------------------
(* The number type: IEEE 754 binary64 with round-to-nearest, ties-to-even.
   A finite number is sign * mant * 2^exp, with mant a natural number spelled
   as a run of bits, most significant first, odd or empty (zero).  Exponent
   overflow, subnormals, NaN and infinities do not arise for the operands
   used here and are not modelled. *)

\* without leading zero bits
BitsTrim(b) ==
    LET ones == {i \in 1..Len(b) : b[i] = 1}
    IN  IF ones = {} THEN <<>> ELSE SubSeq(b, MinOf(ones), Len(b))

\* without trailing zero bits
BitsStripEnd(b) ==
    LET ones == {i \in 1..Len(b) : b[i] = 1}
    IN  IF ones = {} THEN <<>>
        ELSE SubSeq(b, 1, CHOOSE i \in ones : \A j \in ones : j <= i)

RECURSIVE BitsOfNat(_)
BitsOfNat(n) == IF n = 0 THEN <<>> ELSE BitsOfNat(n \div 2) \o <<n % 2>>

RECURSIVE NatOfBits(_)
\* for a run of bits that fits a machine integer
NatOfBits(b) ==
    IF b = <<>> THEN 0
    ELSE 2 * NatOfBits(SubSeq(b, 1, Len(b) - 1)) + b[Len(b)]

BitZeros(n) == [i \in 1..n |-> 0]

\* a < b for runs without leading zeros
BitsLess(a, b) ==
    \/ Len(a) < Len(b)
    \/ /\ Len(a) = Len(b)
       /\ \E i \in 1..Len(a) :
              a[i] < b[i] /\ \A j \in 1..(i - 1) : a[j] = b[j]

\* Arithmetic on runs of bits is done on limbs of 13 bits (base 8192), most
\* significant first, so that a product of two limbs fits a machine integer.
LimbsPadStart(l, n) == [i \in 1..(n - Len(l)) |-> 0] \o l

LimbsOfBits(b) ==
    LET n == (Len(b) + 12) \div 13
        padded == BitZeros(13 * n - Len(b)) \o b
    IN  [j \in 1..n |-> NatOfBits(SubSeq(padded, 13 * (j - 1) + 1, 13 * j))]

BitsOfLimbs(l) ==
    BitsTrim([i \in 1..(13 * Len(l)) |->
                 (l[((i - 1) \div 13) + 1] \div (2 ^ (12 - ((i - 1) % 13)))) % 2])

RECURSIVE LimbsAddCarry(_, _, _)
\* a + b + carry for runs of the same length
LimbsAddCarry(a, b, carry) ==
    IF a = <<>>
    THEN IF carry = 0 THEN <<>> ELSE <<carry>>
    ELSE LET s == a[Len(a)] + b[Len(b)] + carry
         IN  LimbsAddCarry(SubSeq(a, 1, Len(a) - 1), SubSeq(b, 1, Len(b) - 1),
                           s \div 8192) \o <<s % 8192>>

LimbsAdd(a, b) ==
    LET n == Max2(Len(a), Len(b))
    IN  LimbsAddCarry(LimbsPadStart(a, n), LimbsPadStart(b, n), 0)

RECURSIVE LimbsSubBorrow(_, _, _)
\* a - b - borrow for runs of the same length, a >= b + borrow
LimbsSubBorrow(a, b, borrow) ==
    IF a = <<>>
    THEN <<>>
    ELSE LET d == a[Len(a)] - b[Len(b)] - borrow
         IN  LimbsSubBorrow(SubSeq(a, 1, Len(a) - 1), SubSeq(b, 1, Len(b) - 1),
                            IF d < 0 THEN 1 ELSE 0)
                 \o <<IF d < 0 THEN d + 8192 ELSE d>>

RECURSIVE LimbsMulSmall(_, _, _)
\* a * d + carry for one limb d
LimbsMulSmall(a, d, carry) ==
    IF a = <<>>
    THEN IF carry = 0 THEN <<>> ELSE <<carry>>
    ELSE LET s == a[Len(a)] * d + carry
         IN  LimbsMulSmall(SubSeq(a, 1, Len(a) - 1), d, s \div 8192)
                 \o <<s % 8192>>

RECURSIVE LimbsMul(_, _)
\* a * b, one shifted multiple of a per limb of b
LimbsMul(a, b) ==
    IF b = <<>> THEN <<>>
    ELSE LimbsAdd(LimbsMul(a, SubSeq(b, 1, Len(b) - 1)) \o <<0>>,
                  LimbsMulSmall(a, b[Len(b)], 0))

RECURSIVE LimbsDivSmall(_, _, _)
\* the quotient's limbs of a run of limbs (after the remainder rem of the
\* limbs before them) divided by d, 0 < d < 2^17
LimbsDivSmall(digits, d, rem) ==
    IF digits = <<>>
    THEN <<>>
    ELSE LET cur == rem * 8192 + Head(digits)
         IN  <<cur \div d>> \o LimbsDivSmall(Tail(digits), d, cur % d)

RECURSIVE LimbsModSmall(_, _, _)
LimbsModSmall(digits, d, rem) ==
    IF digits = <<>>
    THEN rem
    ELSE LimbsModSmall(Tail(digits), d, (rem * 8192 + Head(digits)) % d)

BitsAdd(a, b) == BitsOfLimbs(LimbsAdd(LimbsOfBits(a), LimbsOfBits(b)))

\* a - b, a >= b
BitsSub(a, b) ==
    LET la == LimbsOfBits(a)
    IN  BitsOfLimbs(LimbsSubBorrow(la, LimbsPadStart(LimbsOfBits(b), Len(la)), 0))

BitsMul(a, b) == BitsOfLimbs(LimbsMul(LimbsOfBits(a), LimbsOfBits(b)))

\* significand bits of a binary64 number
SignificandBits == 53

Neg(x) == x[2]

Mant(x) == x[3]

Exp(x) == x[4]

IsZero(x) == Mant(x) = <<>>

\* the number sign * mant * 2^exp, which needs no rounding
Exact(neg, mant, exp) ==
    LET m == BitsStripEnd(BitsTrim(mant))
    IN  IF m = <<>>
        THEN <<"number", neg, <<>>, 0>>
        ELSE <<"number", neg, m, exp + (Len(BitsTrim(mant)) - Len(m))>>

\* sign * mant * 2^exp rounded to the nearest number, ties to even
Rounded(neg, mant, exp) ==
    LET m == BitsTrim(mant)
    IN  IF Len(m) <= SignificandBits
        THEN Exact(neg, m, exp)
        ELSE LET kept   == SubSeq(m, 1, SignificandBits)
                 guard  == m[SignificandBits + 1]
                 sticky == \E i \in (SignificandBits + 2)..Len(m) : m[i] = 1
                 up     == guard = 1 /\ (sticky \/ kept[SignificandBits] = 1)
             IN  Exact(neg, IF up THEN BitsAdd(kept, <<1>>) ELSE kept,
                       exp + (Len(m) - SignificandBits))

\* the number of an integer literal or an integer-valued expression
NumberOf(n) == Exact(n < 0, BitsOfNat(IF n < 0 THEN 0 - n ELSE n), 0)

\* x === y
NumberEquals(x, y) == (IsZero(x) /\ IsZero(y)) \/ x = y

\* x * y
NumberMul(x, y) ==
    IF IsZero(x) \/ IsZero(y)
    THEN Exact(Neg(x) # Neg(y), <<>>, 0)
    ELSE Rounded(Neg(x) # Neg(y), BitsMul(Mant(x), Mant(y)), Exp(x) + Exp(y))

\* x + y
NumberAdd(x, y) ==
    IF IsZero(x) /\ IsZero(y) THEN Exact(Neg(x) /\ Neg(y), <<>>, 0)
    ELSE IF IsZero(x) THEN y
    ELSE IF IsZero(y) THEN x
    ELSE LET e  == Min2(Exp(x), Exp(y))
             mx == Mant(x) \o BitZeros(Exp(x) - e)
             my == Mant(y) \o BitZeros(Exp(y) - e)
         IN  IF Neg(x) = Neg(y) THEN Rounded(Neg(x), BitsAdd(mx, my), e)
             ELSE IF mx = my THEN Exact(FALSE, <<>>, 0)
             ELSE IF BitsLess(mx, my) THEN Rounded(Neg(y), BitsSub(my, mx), e)
             ELSE Rounded(Neg(x), BitsSub(mx, my), e)

\* x - y
NumberSub(x, y) == NumberAdd(x, <<"number", ~Neg(y), Mant(y), Exp(y)>>)

\* x / y, y not zero, for a divisor whose significand fits 17 bits: the
\* quotient to 55 bits or more, with one more bit that says whether a
\* remainder is left, then rounded
NumberDiv(x, y) ==
    IF IsZero(x)
    THEN Exact(Neg(x) # Neg(y), <<>>, 0)
    ELSE LET shift    == Len(Mant(y)) + SignificandBits + 2
             dividend == LimbsOfBits(Mant(x) \o BitZeros(shift))
             divisor  == NatOfBits(Mant(y))
             q        == BitsOfLimbs(LimbsDivSmall(dividend, divisor, 0))
             r        == LimbsModSmall(dividend, divisor, 0)
         IN  Rounded(Neg(x) # Neg(y), q \o <<IF r = 0 THEN 0 ELSE 1>>,
                     Exp(x) - Exp(y) - shift - 1)

\* the integer part of |x|, as a run of bits
TruncBits(x) ==
    IF Exp(x) >= 0
    THEN Mant(x) \o BitZeros(Exp(x))
    ELSE SubSeq(Mant(x), 1, Max2(Len(Mant(x)) + Exp(x), 0))

\* x is not an integer
HasFraction(x) == ~IsZero(x) /\ Exp(x) < 0

\* Math.floor(x)
MathFloor(x) ==
    IF ~HasFraction(x) THEN x
    ELSE IF Neg(x) THEN Rounded(TRUE, BitsAdd(TruncBits(x), <<1>>), 0)
    ELSE Exact(FALSE, TruncBits(x), 0)

\* Math.ceil(x)
MathCeil(x) ==
    IF ~HasFraction(x) THEN x
    ELSE IF Neg(x) THEN Exact(TRUE, TruncBits(x), 0)
    ELSE Rounded(FALSE, BitsAdd(TruncBits(x), <<1>>), 0)

\* the array index a non-negative integer number selects
IndexOf(x) == NatOfBits(TruncBits(x))

RECURSIVE InsertSorted(_, _)
InsertSorted(sorted, x) ==
    IF sorted = <<>> THEN <<x>>
    ELSE IF x < Head(sorted) THEN <<x>> \o sorted
    ELSE <<Head(sorted)>> \o InsertSorted(Tail(sorted), x)

RECURSIVE SortAscending(_)
\* values.map(toNumber).sort((a, b) => a - b), for numbers given as integers
SortAscending(values) ==
    IF values = <<>> THEN <<>>
    ELSE InsertSorted(SortAscending(SubSeq(values, 1, Len(values) - 1)),
                      values[Len(values)])

percentile(values, p) ==
    IF Len(values) = 0
    THEN Throw("Error", "At least one value required")
    ELSE IF p < 0 \/ p > 100
    THEN Throw("Error", "Percentile must be between 0 and 100")
    ELSE LET sorted == SortAscending(values)
         IN  IF p = 0 THEN NumberOf(sorted[1])
             ELSE IF p = 100 THEN NumberOf(sorted[Len(sorted)])
             ELSE LET index == NumberMul(NumberDiv(NumberOf(p), NumberOf(100)),
                                         NumberOf(Len(sorted) - 1))
                      lower == MathFloor(index)
                      upper == MathCeil(index)
                  IN  IF NumberEquals(lower, upper)
                      THEN NumberOf(sorted[IndexOf(lower) + 1])
                      ELSE LET weight == NumberSub(index, lower)
                           IN  NumberAdd(
                                   NumberMul(NumberOf(sorted[IndexOf(lower) + 1]),
                                             NumberSub(NumberOf(1), weight)),
                                   NumberMul(NumberOf(sorted[IndexOf(upper) + 1]),
                                             weight))

-----------------------------------------------------------------------------
(* Operands *)

SeqsOf(S, lo, hi) == UNION {[1..n -> S] : n \in lo..hi}

\* Strings matching /^-?\d+(\.\d+)?$/ over the alphabet
Decimals(intLen, fracLen) ==
    {Signed(neg, i \o (IF f = <<>> THEN <<>> ELSE <<".">> \o f)) :
        neg \in BOOLEAN,
        i \in SeqsOf(Alphabet, 1, intLen),
        f \in SeqsOf(Alphabet, 0, fracLen)}

\* The operands of the documentation's examples
Examples ==
    {<<"0", ".", "1">>, <<"0", ".", "2">>, <<"-", "5", ".", "5">>,
     <<"3", ".", "3">>, <<"0", ".", "3", "0">>, <<"0", ".", "3">>,
     <<"1", ".", "5">>, <<"1", ".", "4", "9", "9">>,
     <<"1", "0">>, <<"4">>, <<"3">>, <<"-", "5">>}

Inputs == Decimals(MaxIntLen, MaxFracLen) \cup Examples

-----------------------------------------------------------------------------
(* The state machine: Init draws the arguments of one call, an action is   *)
(* the call of one exported function on them.                              *)

Init ==
    /\ pc = "ready"
    /\ args \in [a : Inputs, b : Inputs]
    /\ result = <<>>

DoPreciseAdd ==
    /\ pc = "ready"
    /\ pc' = "preciseAdd"
    /\ result' = preciseAdd(args.a, args.b)
    /\ UNCHANGED args

DoPreciseSubtract ==
    /\ pc = "ready"
    /\ pc' = "preciseSubtract"
    /\ result' = preciseSubtract(args.a, args.b)
    /\ UNCHANGED args

\* The digits the code concatenates into an operand's BigInt
DigitCount(s) ==
    Len(splitDecimal(s).integer) + Len(splitDecimal(s).fraction)

DoPreciseMultiply ==
    /\ pc = "ready"
    /\ DigitCount(args.a) <= MaxMulDigits
    /\ DigitCount(args.b) <= MaxMulDigits
    /\ pc' = "preciseMultiply"
    /\ result' = preciseMultiply(args.a, args.b)
    /\ UNCHANGED args

DoPreciseCompare ==
    /\ pc = "ready"
    /\ pc' = "preciseCompare"
    /\ result' = preciseCompare(args.a, args.b)
    /\ UNCHANGED args

DoPreciseNegate ==
    /\ pc = "ready"
    /\ pc' = "preciseNegate"
    /\ result' = preciseNegate(args.a)
    /\ UNCHANGED args

Next ==
    \/ DoPreciseAdd
    \/ DoPreciseSubtract
    \/ DoPreciseMultiply
    \/ DoPreciseCompare
    \/ DoPreciseNegate

Spec == Init /\ [][Next]_vars

\* Calls of preciseDivide(a, b, precision)
InitDivide ==
    /\ pc = "ready"
    /\ args \in [a : Inputs, b : Inputs, precision : 0..MaxPrecision]
    /\ result = <<>>

DoPreciseDivide ==
    /\ pc = "ready"
    /\ pc' = "preciseDivide"
    /\ result' = preciseDivide(args.a, args.b, args.precision)
    /\ UNCHANGED args

NextDivide == DoPreciseDivide

SpecDivide == InitDivide /\ [][NextDivide]_vars

\* Three operands, for chained calls of preciseAdd
AssocInputs == Decimals(1, MaxAssocFracLen)

InitAssoc ==
    /\ pc = "ready"
    /\ args \in [a : AssocInputs, b : AssocInputs, c : AssocInputs]
    /\ result = <<>>

NextAssoc == DoPreciseAdd

SpecAssoc == InitAssoc /\ [][NextAssoc]_vars

\* Calls of preciseRound(value, decimalPlaces, mode)
RoundDecimals ==
    {Signed(neg, i \o (IF f = <<>> THEN <<>> ELSE <<".">> \o f)) :
        neg \in BOOLEAN,
        i \in SeqsOf(RoundAlphabet, 1, 1),
        f \in SeqsOf(RoundAlphabet, 0, MaxRoundFracLen)}

\* The arguments of the documentation's examples
RoundExamples ==
    {<<"2", ".", "5">>, <<"3", ".", "5">>, <<"-", "2", ".", "5">>,
     <<"2", ".", "5", "5", "5">>}

RoundInputs == RoundDecimals \cup RoundExamples

InitRound ==
    /\ pc = "ready"
    /\ args \in [value : RoundInputs,
                 decimalPlaces : (0 - 2)..MaxDecimalPlaces,
                 mode : PrecisionRoundingMode]
    /\ result = <<>>

DoPreciseRound ==
    /\ pc = "ready"
    /\ pc' = "preciseRound"
    /\ result' = preciseRound(args.value, args.decimalPlaces, args.mode)
    /\ UNCHANGED args

NextRound == DoPreciseRound

SpecRound == InitRound /\ [][NextRound]_vars

\* Two calls of preciseRound with the same decimalPlaces and mode
PairAlphabet == {"0", "5", "9"}

PairDecimals ==
    {Signed(neg, <<"0">> \o (IF f = <<>> THEN <<>> ELSE <<".">> \o f)) :
        neg \in BOOLEAN,
        f \in SeqsOf(PairAlphabet, 0, MaxPairFracLen)}

\* Arguments with digits beyond the digit that decides
PairExamples ==
    {Signed(neg, <<"0", ".", "0">> \o f) :
        neg \in BOOLEAN,
        f \in {<<"5", "5">>, <<"5", "0">>, <<"0", "5">>, <<"9", "5">>}}

PairInputs == PairDecimals \cup PairExamples

InitRoundPair ==
    /\ pc = "ready"
    /\ args \in [x : PairInputs,
                 y : PairInputs,
                 decimalPlaces : 1..MaxPairFracLen,
                 mode : PrecisionRoundingMode]
    /\ result = <<>>

DoPreciseRoundPair ==
    /\ pc = "ready"
    /\ pc' = "preciseRoundPair"
    /\ result' = <<preciseRound(args.x, args.decimalPlaces, args.mode),
                   preciseRound(args.y, args.decimalPlaces, args.mode)>>
    /\ UNCHANGED args

NextRoundPair == DoPreciseRoundPair

SpecRoundPair == InitRoundPair /\ [][NextRoundPair]_vars

\* Calls of the aggregate functions on a list of values
AggregateInputs == Decimals(1, 1)

InitAggregate ==
    /\ pc = "ready"
    /\ args \in [values : SeqsOf(AggregateInputs, 0, MaxValues)]
    /\ result = <<>>

DoPreciseMin ==
    /\ pc = "ready"
    /\ pc' = "preciseMin"
    /\ result' = preciseMin(args.values)
    /\ UNCHANGED args

DoPreciseMax ==
    /\ pc = "ready"
    /\ pc' = "preciseMax"
    /\ result' = preciseMax(args.values)
    /\ UNCHANGED args

DoPreciseSum ==
    /\ pc = "ready"
    /\ pc' = "preciseSum"
    /\ result' = preciseSum(args.values)
    /\ UNCHANGED args

DoPreciseAverage ==
    /\ pc = "ready"
    /\ pc' = "preciseAverage"
    /\ result' = preciseAverage(args.values)
    /\ UNCHANGED args

NextAggregate ==
    \/ DoPreciseMin
    \/ DoPreciseMax
    \/ DoPreciseSum
    \/ DoPreciseAverage

SpecAggregate == InitAggregate /\ [][NextAggregate]_vars

\* Calls of preciseDistribute(amount, parts, decimalPlaces)
DistributeAmounts == Inputs \cup {<<"1", "0", "0">>}

InitDistribute ==
    /\ pc = "ready"
    /\ args \in [amount : DistributeAmounts,
                 parts : 0..MaxParts,
                 decimalPlaces : 0..MaxDecimalPlaces]
    /\ result = <<>>

DoPreciseDistribute ==
    /\ pc = "ready"
    /\ pc' = "preciseDistribute"
    /\ result' = preciseDistribute(args.amount, args.parts, args.decimalPlaces)
    /\ UNCHANGED args

NextDistribute == DoPreciseDistribute

SpecDistribute == InitDistribute /\ [][NextDistribute]_vars

\* preciseDistribute(amount, parts, decimalPlaces), one step per iteration of
\* its loop; result holds the locals of the call
InitDistributeSteps ==
    /\ pc = "ready"
    /\ args \in [amount : DistributeAmounts,
                 parts : 0..MaxParts,
                 decimalPlaces : 0..MaxDecimalPlaces]
    /\ result = <<>>

DistributeCall ==
    /\ pc = "ready"
    /\ result' = DistributeEnter(args.amount, args.parts, args.decimalPlaces)
    /\ pc' = IF result'.thrown # <<>> THEN "thrown" ELSE "loop"
    /\ UNCHANGED args

DistributeStep ==
    /\ pc = "loop"
    /\ DistributeContinues(result, args.parts)
    /\ result' = DistributeIterate(result)
    /\ UNCHANGED <<pc, args>>

DistributeReturn ==
    /\ pc = "loop"
    /\ ~DistributeContinues(result, args.parts)
    /\ pc' = "returned"
    /\ UNCHANGED <<args, result>>

NextDistributeSteps == DistributeCall \/ DistributeStep \/ DistributeReturn

SpecDistributeSteps == InitDistributeSteps /\ [][NextDistributeSteps]_vars

\* Calls of preciseAllocate(amount, ratios, decimalPlaces)
AllocateAmounts == Decimals(1, 2) \cup {<<"1", "0", "0", "0">>}

InitAllocate ==
    /\ pc = "ready"
    /\ args \in [amount : AllocateAmounts,
                 ratios : SeqsOf((0 - 1)..MaxRatio, 0, MaxRatios),
                 decimalPlaces : 0..MaxDecimalPlaces]
    /\ result = <<>>

DoPreciseAllocate ==
    /\ pc = "ready"
    /\ pc' = "preciseAllocate"
    /\ result' = preciseAllocate(args.amount, args.ratios, args.decimalPlaces)
    /\ UNCHANGED args

NextAllocate == DoPreciseAllocate

SpecAllocate == InitAllocate /\ [][NextAllocate]_vars

\* Calls of precisePercentage, preciseAddPercentage and
\* preciseSubtractPercentage
PercentExamples ==
    {<<"1", "0", "0", "0">>, <<"1", "8">>, <<"2", "5", "0">>, <<"1", "5">>,
     <<"1", "0">>}

PercentInputs == Decimals(1, MaxPercentFracLen) \cup PercentExamples

\* 10^-10: two of them have a product of 20 fraction digits
TinyOperand == <<"0", ".">> \o Zeros(9) \o <<"1">>

InitPercent ==
    /\ pc = "ready"
    /\ args \in [value : PercentInputs, percent : PercentInputs]
                   \cup {[value |-> TinyOperand, percent |-> TinyOperand]}
    /\ result = <<>>

DoPrecisePercentage ==
    /\ pc = "ready"
    /\ pc' = "precisePercentage"
    /\ result' = precisePercentage(args.value, args.percent)
    /\ UNCHANGED args

DoPreciseAddPercentage ==
    /\ pc = "ready"
    /\ pc' = "preciseAddPercentage"
    /\ result' = preciseAddPercentage(args.value, args.percent)
    /\ UNCHANGED args

DoPreciseSubtractPercentage ==
    /\ pc = "ready"
    /\ pc' = "preciseSubtractPercentage"
    /\ result' = preciseSubtractPercentage(args.value, args.percent)
    /\ UNCHANGED args

NextPercent ==
    \/ DoPrecisePercentage
    \/ DoPreciseAddPercentage
    \/ DoPreciseSubtractPercentage

SpecPercent == InitPercent /\ [][NextPercent]_vars

\* Calls of percentile(values, p): the values are numbers that are integers
PercentileLists ==
    SeqsOf((0 - 1)..MaxPercentileValue, 0, MaxPercentileLen)
        \cup {<<1, 2, 3, 4, 5>>, <<5, 3, 1, 4, 2>>, [i \in 1..26 |-> 26 - i]}

PercentileRanks == {0 - 1, 0, 25, 28, 50, 75, 100, 101}

InitPercentile ==
    /\ pc = "ready"
    /\ args \in [values : PercentileLists, p : PercentileRanks]
    /\ result = <<>>

DoPercentile ==
    /\ pc = "ready"
    /\ pc' = "percentile"
    /\ result' = percentile(args.values, args.p)
    /\ UNCHANGED args

NextPercentile == DoPercentile

SpecPercentile == InitPercentile /\ [][NextPercentile]_vars

\* Calls of splitDecimal(value)
InitSplit ==
    /\ pc = "ready"
    /\ args \in [value : Inputs]
    /\ result = <<>>

DoSplitDecimal ==
    /\ pc = "ready"
    /\ pc' = "splitDecimal"
    /\ result' = splitDecimal(args.value)
    /\ UNCHANGED args

NextSplit == DoSplitDecimal

SpecSplit == InitSplit /\ [][NextSplit]_vars

-----------------------------------------------------------------------------
(* What a decimal string denotes, read off the string itself *)

HasMinus(s) == StartsWith(s, "-")

Magnitude(s) == IF HasMinus(s) THEN Tail(s) ELSE s

IntDigits(s) ==
    LET m == Magnitude(s)
    IN  IF DotPositions(m) = {} THEN m
        ELSE SubSeq(m, 1, MinOf(DotPositions(m)) - 1)

FracDigits(s) ==
    LET m == Magnitude(s)
    IN  IF DotPositions(m) = {} THEN <<>>
        ELSE SubSeq(m, MinOf(DotPositions(m)) + 1, Len(m))

FracLen(s) == Len(FracDigits(s))

IsDigitRun(s) == Len(s) >= 1 /\ \A i \in 1..Len(s) : IsDigit(s[i])

\* s matches /^-?\d+(\.\d+)?$/
IsDecimal(s) ==
    /\ IsDigitRun(IntDigits(s))
    /\ DotPositions(s) = {} \/ IsDigitRun(FracDigits(s))

\* value(s) * 10^k, for a decimal s of at most k fraction digits
ScaledValue(s, k) ==
    LET n == ParseNat(IntDigits(s)) * Pow10(k)
             + ParseNat(FracDigits(s)) * Pow10(k - FracLen(s))
    IN  IF HasMinus(s) THEN 0 - n ELSE n

\* no leading zeros but a lone 0, no trailing fraction zeros, no point
\* without fraction digits, no sign on zero
IsCanonical(s) ==
    /\ IsDecimal(s)
    /\ Len(IntDigits(s)) = 1 \/ IntDigits(s)[1] # "0"
    /\ FracLen(s) > 0 => FracDigits(s)[FracLen(s)] # "0"
    /\ HasMinus(s) => ScaledValue(s, FracLen(s)) # 0

Sign(n) == IF n < 0 THEN 0 - 1 ELSE IF n > 0 THEN 1 ELSE 0

Abs(n) == IF n < 0 THEN 0 - n ELSE n

\* the integer quotient x / y truncated toward zero, y # 0
TruncDiv(x, y) == Sign(x) * Sign(y) * (Abs(x) \div Abs(y))

ArgFracLen == Max2(FracLen(args.a), FracLen(args.b))

-----------------------------------------------------------------------------
(* Claims *)

\* C1: preciseAdd(a, b) is a decimal string denoting exactly a + b, whatever
\* the numbers of fraction digits of a and b; preciseAdd('0.1','0.2') = '0.3'
\* and preciseAdd('-5.5','3.3') = '-2.2'.
C1_AddIsExactSum ==
    pc = "preciseAdd" =>
        /\ IsDecimal(result)
        /\ FracLen(result) <= ArgFracLen
        /\ ScaledValue(result, ArgFracLen)
               = ScaledValue(args.a, ArgFracLen) + ScaledValue(args.b, ArgFracLen)
        /\ (args.a = <<"0", ".", "1">> /\ args.b = <<"0", ".", "2">>)
               => result = <<"0", ".", "3">>
        /\ (args.a = <<"-", "5", ".", "5">> /\ args.b = <<"3", ".", "3">>)
               => result = <<"-", "2", ".", "2">>

\* an addition of operands of different fraction lengths and signs that
\* borrows across the decimal point: '-5.05' + '0.5' = '-4.55'
C1_Witness ==
    /\ pc = "preciseAdd"
    /\ args.a = <<"-", "5", ".", "0", "5">>
    /\ args.b = <<"0", ".", "5">>
    /\ result = <<"-", "4", ".", "5", "5">>

\* C2: preciseMultiply(a, b) is a decimal string denoting exactly a * b, with
\* at most len(fraction_a) + len(fraction_b) fraction digits, and carries a
\* minus sign exactly when the product is negative; '0.1'*'0.2' = '0.02',
\* '-5'*'3' = '-15'.
C2_MultiplyIsExactProduct ==
    pc = "preciseMultiply" =>
        LET k == FracLen(args.a) + FracLen(args.b)
            product == ScaledValue(args.a, FracLen(args.a))
                           * ScaledValue(args.b, FracLen(args.b))
        IN  /\ IsDecimal(result)
            /\ FracLen(result) <= k
            /\ ScaledValue(result, k) = product
            /\ HasMinus(result) <=> product < 0
            /\ (args.a = <<"0", ".", "1">> /\ args.b = <<"0", ".", "2">>)
                   => result = <<"0", ".", "0", "2">>
            /\ (args.a = <<"-", "5">> /\ args.b = <<"3">>)
                   => result = <<"-", "1", "5">>

\* a product of two fractions of opposite sign: '-0.5' * '0.5' = '-0.25'
C2_Witness ==
    /\ pc = "preciseMultiply"
    /\ args.a = <<"-", "0", ".", "5">>
    /\ args.b = <<"0", ".", "5">>
    /\ result = <<"-", "0", ".", "2", "5">>

\* C3: for every non-zero b and every precision p >= 0, preciseDivide(a,b,p)
\* is a decimal string of at most p fraction digits denoting the quotient a/b
\* truncated toward zero to p fraction digits.
C3_DivideIsTruncatedQuotient ==
    (pc = "preciseDivide" /\ ScaledValue(args.b, FracLen(args.b)) # 0) =>
        /\ IsDecimal(result)
        /\ FracLen(result) <= args.precision
        /\ ScaledValue(result, args.precision)
               = TruncDiv(ScaledValue(args.a, ArgFracLen) * Pow10(args.precision),
                          ScaledValue(args.b, ArgFracLen))

\* C4: preciseDivide(a, b, p) with b '0' or '0.0' throws
\* Error('Division by zero') for every a and p, and returns nothing.
C4_DivideByZeroThrows ==
    (pc = "preciseDivide" /\ args.b \in {<<"0">>, <<"0", ".", "0">>}) =>
        result = Throw("Error", "Division by zero")

\* a non-zero dividend divided by '0.0' at precision 0 has thrown
C4_Witness ==
    /\ pc = "preciseDivide"
    /\ args.a = <<"-", "5", ".", "5">>
    /\ args.b = <<"0", ".", "0">>
    /\ args.precision = 0
    /\ Threw(result)

\* C5: preciseCompare(a, b) is -1, 0 or 1 as a < b, a = b or a > b
\* numerically, whatever the spelling of the operands;
\* preciseCompare('0.30','0.3') = 0 and preciseCompare('1.5','1.499') = 1.
C5_CompareIsNumericOrder ==
    pc = "preciseCompare" =>
        /\ result = Sign(ScaledValue(args.a, ArgFracLen)
                             - ScaledValue(args.b, ArgFracLen))
        /\ (args.a = <<"0", ".", "3", "0">> /\ args.b = <<"0", ".", "3">>)
               => result = 0
        /\ (args.a = <<"1", ".", "5">> /\ args.b = <<"1", ".", "4", "9", "9">>)
               => result = 1

\* two spellings of the same value, one with a leading zero and a trailing
\* fraction zero, compare equal: '05.50' against '5.5'
C5_Witness ==
    /\ pc = "preciseCompare"
    /\ args.a = <<"0", "5", ".", "5", "0">>
    /\ args.b = <<"5", ".", "5">>
    /\ result = 0

\* C6: preciseCompare(a, b) = -preciseCompare(b, a).
C6_CompareAntisymmetric ==
    pc = "preciseCompare" => result = 0 - preciseCompare(args.b, args.a)

\* a pair of different operands that compares as smaller
C6_Witness ==
    /\ pc = "preciseCompare"
    /\ args.a = <<"-", "0", ".", "5">>
    /\ args.b = <<"-", "0", ".", "0", "5">>
    /\ result = 0 - 1

\* C7: preciseAdd(a, preciseNegate(a)) is exactly '0' for every a, every
\* spelling of zero included.
C7_AddNegateIsZero ==
    pc = "preciseNegate" => preciseAdd(args.a, result) = <<"0">>

\* the zero spelling '0.00', which preciseNegate turns into '-0.00'
C7_Witness ==
    /\ pc = "preciseNegate"
    /\ args.a = <<"0", ".", "0", "0">>
    /\ result = <<"-", "0", ".", "0", "0">>

\* C8: preciseAdd(preciseAdd(a,b),c) and preciseAdd(a,preciseAdd(b,c)) are
\* the identical string.
C8_AddAssociative ==
    pc = "preciseAdd" =>
        preciseAdd(result, args.c)
            = preciseAdd(args.a, preciseAdd(args.b, args.c))

\* operands of three different fraction lengths that cancel to zero:
\* ('5' + '0.05') + '-5.05'
C8_Witness ==
    /\ pc = "preciseAdd"
    /\ args.a = <<"5">>
    /\ args.b = <<"0", ".", "0", "5">>
    /\ args.c = <<"-", "5", ".", "0", "5">>
    /\ result = <<"5", ".", "0", "5">>
    /\ preciseAdd(result, args.c) = <<"0">>

\* C9: every string returned by preciseAdd, preciseSubtract and
\* preciseMultiply is canonical.
C9_ArithmeticResultCanonical ==
    pc \in {"preciseAdd", "preciseSubtract", "preciseMultiply"} =>
        IsCanonical(result)

\* the product of a minus-signed zero and a fraction: '-0.0' * '5.5' = '0'
C9_Witness ==
    /\ pc = "preciseMultiply"
    /\ args.a = <<"-", "0", ".", "0">>
    /\ args.b = <<"5", ".", "5">>
    /\ result = <<"0">>

\* C10: every string returned by preciseDivide is canonical; a truncated
\* quotient of zero is '0' without a minus sign.
C10_DivideResultCanonical ==
    (pc = "preciseDivide" /\ ~Threw(result)) => IsCanonical(result)

-----------------------------------------------------------------------------
(* What rounding a decimal string to a number of places means, read off    *)
(* the argument itself.  Values are scaled by 10^RoundScale.               *)

RoundScale == Max2(FracLen(args.value), args.decimalPlaces)

\* the argument, and one unit of 10^-decimalPlaces, at that scale
RoundArg == ScaledValue(args.value, RoundScale)

RoundUnit == Pow10(RoundScale - args.decimalPlaces)

\* the argument truncated toward zero, in units of 10^-decimalPlaces
RoundTruncated == TruncDiv(RoundArg, RoundUnit)

\* what truncation drops, its first digit, and whether a later one is not 0
RoundDropped == Abs(RoundArg) % RoundUnit

RoundNextDigit ==
    IF RoundUnit = 1 THEN 0 ELSE RoundDropped \div (RoundUnit \div 10)

RoundHasMore ==
    RoundUnit > 1 /\ RoundDropped % (RoundUnit \div 10) # 0

\* the condition of each mode for growing the magnitude by one unit
RoundGrows ==
    LET negative == RoundArg < 0
        mode     == args.mode
    IN  CASE mode \in {"UP", "CEIL"} -> ~negative /\ RoundDropped # 0
          [] mode = "DOWN"           -> FALSE
          [] mode = "FLOOR"          -> negative /\ RoundDropped # 0
          [] mode = "HALF_UP"        -> RoundNextDigit >= 5
          [] mode = "HALF_DOWN"      ->
                 RoundNextDigit > 5 \/ (RoundNextDigit = 5 /\ RoundHasMore)
          [] mode = "HALF_EVEN"      ->
                 \/ RoundNextDigit > 5
                 \/ RoundNextDigit = 5 /\ RoundHasMore
                 \/ /\ RoundNextDigit = 5
                    /\ ~RoundHasMore
                    /\ Abs(RoundTruncated) % 2 = 1
          [] mode = "HALF_CEIL"      -> RoundNextDigit >= 5 /\ RoundArg >= 0
          [] mode = "HALF_FLOOR"     -> RoundNextDigit >= 5 /\ RoundArg < 0

\* the rounded value per the mode table, in units of 10^-decimalPlaces
RoundExpected ==
    RoundTruncated
        + (IF RoundGrows THEN (IF RoundArg < 0 THEN 0 - 1 ELSE 1) ELSE 0)

\* the multiple of 10^-decimalPlaces nearest to the argument, an exact tie
\* going toward positive infinity (up) or negative infinity (~up)
RoundNearest(up) ==
    LET floor == RoundArg \div RoundUnit
        rest  == RoundArg - floor * RoundUnit
    IN  IF 2 * rest > RoundUnit \/ (2 * rest = RoundUnit /\ up)
        THEN floor + 1
        ELSE floor

\* C11: with decimalPlaces = 0 preciseRound returns an integer-only string
\* holding the value rounded per the mode, also when the mode rounds up:
\* '2.5' HALF_EVEN -> '2', '3.5' HALF_EVEN -> '4', '2.5' HALF_UP -> '3',
\* '-2.5' FLOOR -> '-3'.
C11_RoundToIntegerPerMode ==
    (pc = "preciseRound" /\ args.decimalPlaces = 0) =>
        /\ IsDecimal(result)
        /\ DotPositions(result) = {}
        /\ ScaledValue(result, 0) = RoundExpected
        /\ (args.value = <<"2", ".", "5">> /\ args.mode = "HALF_EVEN")
               => result = <<"2">>
        /\ (args.value = <<"3", ".", "5">> /\ args.mode = "HALF_EVEN")
               => result = <<"4">>
        /\ (args.value = <<"2", ".", "5">> /\ args.mode = "HALF_UP")
               => result = <<"3">>
        /\ (args.value = <<"-", "2", ".", "5">> /\ args.mode = "FLOOR")
               => result = <<"-", "3">>

C13_NegativePlacesThrows ==
    (pc = "preciseRound" /\ args.decimalPlaces < 0) =>
        result = Throw("Error", "Decimal places must be non-negative")

\* a call with decimalPlaces = -1 has thrown
C13_Witness ==
    /\ pc = "preciseRound"
    /\ args.value = <<"2", ".", "5", "5", "5">>
    /\ args.decimalPlaces = 0 - 1
    /\ args.mode = "HALF_UP"
    /\ Threw(result)

\* C14: preciseRound is idempotent: rounding a returned string again, to
\* the same places in the same mode, returns the same string.
C14_RoundIdempotent ==
    (pc = "preciseRound" /\ args.decimalPlaces >= 0 /\ ~Threw(result)) =>
        preciseRound(result, args.decimalPlaces, args.mode) = result

\* C15: HALF_CEIL and HALF_FLOOR return the multiple of 10^-decimalPlaces
\* nearest to the value, positive or negative; only an exact tie goes
\* toward positive infinity (HALF_CEIL) or negative infinity (HALF_FLOOR).
C15_HalfCeilFloorNearest ==
    (/\ pc = "preciseRound"
     /\ args.mode \in {"HALF_CEIL", "HALF_FLOOR"}
     /\ args.decimalPlaces >= 0
     /\ ~Threw(result)) =>
        /\ IsDecimal(result)
        /\ FracLen(result) <= args.decimalPlaces
        /\ ScaledValue(result, args.decimalPlaces)
               = RoundNearest(args.mode = "HALF_CEIL")

\* C16: preciseRound never returns a zero value carrying a minus sign.
C16_RoundNoNegativeZero ==
    (/\ pc = "preciseRound"
     /\ IsDecimal(result)
     /\ ScaledValue(result, FracLen(result)) = 0) => ~HasMinus(result)

\* C17: preciseNegate returns its argument unchanged when its value is zero,
\* whatever the spelling ('0', '0.0', '0.00', '00'), and never returns a
\* minus-signed zero; for a non-zero argument it only flips the leading sign.
C17_NegateKeepsZero ==
    pc = "preciseNegate" =>
        IF ScaledValue(args.a, FracLen(args.a)) = 0
        THEN /\ ~HasMinus(result)
             /\ ~HasMinus(args.a) => result = args.a
        ELSE result = (IF HasMinus(args.a)
                       THEN Tail(args.a)
                       ELSE <<"-">> \o args.a)

RECURSIVE MaxFracLenOf(_)
\* the longest fraction among a list of decimal strings
MaxFracLenOf(list) ==
    IF list = <<>> THEN 0
    ELSE Max2(FracLen(Head(list)), MaxFracLenOf(Tail(list)))

RECURSIVE SumScaled(_, _)
\* the sum of a list of decimal strings, scaled by 10^k
SumScaled(list, k) ==
    IF list = <<>> THEN 0
    ELSE ScaledValue(Head(list), k) + SumScaled(Tail(list), k)

\* a list of decimal strings whose exact sum is the value of amount
SumsExactlyTo(list, amount) ==
    /\ ~ThrewList(list)
    /\ \A i \in 1..Len(list) : IsDecimal(list[i])
    /\ LET k == Max2(MaxFracLenOf(list), FracLen(amount))
       IN  SumScaled(list, k) = ScaledValue(amount, k)

\* C19: for every amount, every parts >= 1 and every decimalPlaces >= 0,
\* preciseDistribute returns exactly `parts` strings whose exact sum is the
\* amount; preciseDistribute('100', 3) = ['33.34', '33.33', '33.33'].
C19_DistributeSumsToAmount ==
    (pc = "preciseDistribute" /\ args.parts >= 1 /\ args.decimalPlaces >= 0) =>
        /\ SumsExactlyTo(result, args.amount)
        /\ Len(result) = args.parts
        /\ (/\ args.amount = <<"1", "0", "0">>
            /\ args.parts = 3
            /\ args.decimalPlaces = DEFAULT_PRECISION_DECIMAL_PLACES)
               => result = << <<"3", "3", ".", "3", "4">>,
                              <<"3", "3", ".", "3", "3">>,
                              <<"3", "3", ".", "3", "3">> >>

\* the ratio lists preciseAllocate accepts: not empty, no negative ratio,
\* a positive sum
ValidRatios(ratios) ==
    /\ Len(ratios) >= 1
    /\ \A i \in 1..Len(ratios) : ratios[i] >= 0
    /\ \E i \in 1..Len(ratios) : ratios[i] > 0

\* C20: for every amount, every valid ratio list and every decimalPlaces >= 1
\* the strings returned by preciseAllocate, one per ratio, sum exactly to the
\* amount: the last slot is the amount minus the sum of the earlier slots.
C20_AllocateSumsToAmount ==
    (/\ pc = "preciseAllocate"
     /\ ValidRatios(args.ratios)
     /\ args.decimalPlaces >= 1) =>
        /\ SumsExactlyTo(result, args.amount)
        /\ Len(result) = Len(args.ratios)

\* '1000' allocated 3 : 2 : 1 to two places: the earlier shares are rounded
\* and the last slot takes what is left
C20_Witness ==
    /\ pc = "preciseAllocate"
    /\ args.amount = <<"1", "0", "0", "0">>
    /\ args.ratios = <<3, 2, 1>>
    /\ args.decimalPlaces = 2
    /\ result[2] = <<"3", "3", "3", ".", "3", "3">>
    /\ result[3] = <<"1", "6", "6", ".", "6", "7">>

\* C21: preciseAllocate throws, and so returns no list at all, when the ratio
\* list is empty, when some ratio is negative, and when the ratios sum to
\* zero, whatever the amount and decimalPlaces.
C21_AllocateRejectsBadRatios ==
    (pc = "preciseAllocate" /\ ~ValidRatios(args.ratios)) =>
        result = ListThrow(Throw("Error",
            IF Len(args.ratios) = 0
            THEN "At least one ratio is required"
            ELSE IF \E i \in 1..Len(args.ratios) : args.ratios[i] < 0
            THEN "Ratios must be non-negative"
            ELSE "Total ratio must be greater than zero"))

\* a negative ratio beside ratios whose sum is still positive is rejected
C21_Witness ==
    /\ pc = "preciseAllocate"
    /\ args.ratios = <<3, 0 - 1>>
    /\ result = ListThrow(Throw("Error", "Ratios must be non-negative"))

\* C22: every share returned by preciseAllocate is a canonical decimal string
\* (no trailing zero in the fraction, no sign on zero), and
\* preciseAllocate('1000', [3, 2, 1], 2) is ['500', '333.33', '166.67'].
C22_AllocateSharesCanonical ==
    (/\ pc = "preciseAllocate"
     /\ ValidRatios(args.ratios)
     /\ args.decimalPlaces >= 1) =>
        /\ ~ThrewList(result)
        /\ \A i \in 1..Len(result) : IsCanonical(result[i])
        /\ (/\ args.amount = <<"1", "0", "0", "0">>
            /\ args.ratios = <<3, 2, 1>>
            /\ args.decimalPlaces = 2) =>
               result = << <<"5", "0", "0">>,
                           <<"3", "3", "3", ".", "3", "3">>,
                           <<"1", "6", "6", ".", "6", "7">> >>

\* value(s) * 10^k for a decimal s of at most k fraction digits, read as one
\* run of digits (no power of ten is formed)
ScaledDigits(s, k) ==
    LET n == ParseNat(IntDigits(s) \o PadEnd(FracDigits(s), k))
    IN  IF HasMinus(s) THEN 0 - n ELSE n

\* n * 10^e
ScaleUp(n, e) == IF n = 0 THEN 0 ELSE n * Pow10(e)

\* value * percent, scaled by 10^(PercentScale - 2)
PercentProduct ==
    ScaledDigits(args.value, FracLen(args.value))
        * ScaledDigits(args.percent, FracLen(args.percent))

\* the fraction digits of value * percent / 100
PercentScale == FracLen(args.value) + FracLen(args.percent) + 2

\* result - value, scaled by 10^k
PercentChange(k) == ScaledDigits(result, k) - ScaledDigits(args.value, k)

PercentChangeScale == Max2(FracLen(result), FracLen(args.value))

\* C23 as stated: precisePercentage(value, pct) denotes exactly
\* value * pct / 100 for all well-formed value and pct, and
\* preciseAddPercentage / preciseSubtractPercentage return exactly value
\* plus / minus that amount.
C23_PercentageIsExact ==
    /\ pc = "precisePercentage" =>
        /\ IsDecimal(result)
        /\ FracLen(result) <= PercentScale
        /\ ScaledDigits(result, PercentScale) = PercentProduct
    /\ pc \in {"preciseAddPercentage", "preciseSubtractPercentage"} =>
        /\ IsDecimal(result)
        /\ PercentChangeScale <= PercentScale
        /\ ScaleUp(PercentChange(PercentChangeScale),
                   PercentScale - PercentChangeScale)
             = IF pc = "preciseAddPercentage"
               THEN PercentProduct ELSE 0 - PercentProduct

\* the fraction digits precisePercentage keeps: those of the exact amount,
\* at most PRECISION_DEFAULT
PercentKeptScale == Min2(PercentScale, PRECISION_DEFAULT)

\* value * percent / 100 truncated toward zero to PercentKeptScale fraction
\* digits, scaled by 10^PercentKeptScale
PercentTruncated ==
    IF PercentScale <= PRECISION_DEFAULT
    THEN PercentProduct
    ELSE TruncDiv(PercentProduct, Pow10(PercentScale - PRECISION_DEFAULT))

\* C23 (amended): precisePercentage(value, pct) denotes value * pct / 100
\* truncated toward zero to 20 fraction digits, which is the exact amount
\* when value and pct have at most 18 fraction digits between them
\* (precisePercentage('1000', '18') = '180', precisePercentage('250', '15') =
\* '37.5'); preciseAddPercentage / preciseSubtractPercentage return exactly
\* value plus / minus that truncated amount.
C23_PercentageTruncated ==
    /\ pc = "precisePercentage" =>
        /\ IsDecimal(result)
        /\ FracLen(result) <= PercentKeptScale
        /\ ScaledDigits(result, PercentKeptScale) = PercentTruncated
        /\ (args.value = <<"1", "0", "0", "0">> /\ args.percent = <<"1", "8">>)
               => result = <<"1", "8", "0">>
        /\ (args.value = <<"2", "5", "0">> /\ args.percent = <<"1", "5">>)
               => result = <<"3", "7", ".", "5">>
    /\ pc \in {"preciseAddPercentage", "preciseSubtractPercentage"} =>
        /\ IsDecimal(result)
        /\ PercentChangeScale <= PercentKeptScale
        /\ ScaleUp(PercentChange(PercentChangeScale),
                   PercentKeptScale - PercentChangeScale)
             = IF pc = "preciseAddPercentage"
               THEN PercentTruncated ELSE 0 - PercentTruncated

\* 10^-10 percent of 10^-10 is 10^-22, which precisePercentage returns as '0'
C23_Witness ==
    /\ pc = "precisePercentage"
    /\ args.value = TinyOperand
    /\ args.percent = TinyOperand
    /\ result = <<"0">>

\* the element at zero-based rank r of the values in ascending order, read
\* off the list itself: fewer than r + 1 values are smaller, more than r are
\* not larger
ElementAtRank(values, r) ==
    CHOOSE x \in {values[i] : i \in 1..Len(values)} :
        /\ Cardinality({i \in 1..Len(values) : values[i] < x}) <= r
        /\ Cardinality({i \in 1..Len(values) : values[i] <= x}) > r

\* C24: for a non-empty list and 0 <= p <= 100, percentile(values, 0) is the
\* minimum and percentile(values, 100) the maximum whatever the order of the
\* list, and a p whose rank p / 100 * (n - 1) is an integer returns the
\* element of that rank in ascending order (percentile([1,2,3,4,5], 50) = 3);
\* an empty list or a p outside [0, 100] throws.
C24_PercentileAtIntegralRank ==
    pc = "percentile" =>
        IF Len(args.values) = 0 \/ args.p < 0 \/ args.p > 100
        THEN Threw(result)
        ELSE LET n == Len(args.values)
             IN  /\ args.p = 0 =>
                     result = NumberOf(ElementAtRank(args.values, 0))
                 /\ args.p = 100 =>
                     result = NumberOf(ElementAtRank(args.values, n - 1))
                 /\ (args.p * (n - 1)) % 100 = 0 =>
                     result = NumberOf(ElementAtRank(args.values,
                                                     (args.p * (n - 1)) \div 100))
                 /\ (args.values = <<1, 2, 3, 4, 5>> /\ args.p = 50) =>
                     result = NumberOf(3)

\* C25: splitDecimal reports isNegative = true exactly when the string starts
\* with '-' and its value is not zero; '-0', '-0.0', '-0.00' and '-00'
\* decompose as non-negative.
C25_SplitSignOfZero ==
    pc = "splitDecimal" =>
        result.isNegative
            = (HasMinus(args.value)
               /\ ScaledValue(args.value, FracLen(args.value)) # 0)

\* C26: whenever preciseRound returns, its result has exactly decimalPlaces
\* fraction digits when decimalPlaces >= 1 (also when the argument had fewer
\* and after a carry out of the fraction), and no decimal point when
\* decimalPlaces = 0.
C26_RoundFractionWidth ==
    (pc = "preciseRound" /\ ~Threw(result)) =>
        /\ IsDecimal(result)
        /\ IF args.decimalPlaces = 0
           THEN DotPositions(result) = {}
           ELSE FracLen(result) = args.decimalPlaces

\* '9.995' to two places, HALF_UP: the carry runs out of the fraction and the
\* sum '10' is padded back to '10.00'
C26_Witness ==
    /\ pc = "preciseRound"
    /\ args.value = <<"9", ".", "9", "9", "5">>
    /\ args.decimalPlaces = 2
    /\ args.mode = "HALF_UP"
    /\ result = <<"1", "0", ".", "0", "0">>

\* the case of C27: parts >= 1, decimalPlaces >= 1 and an amount of at most
\* decimalPlaces fraction digits, inside the call or after its return
DistributeInScope ==
    /\ pc \in {"loop", "returned"}
    /\ args.parts >= 1
    /\ args.decimalPlaces >= 1
    /\ FracLen(args.amount) <= args.decimalPlaces

\* the remainder in units of 10^-decimalPlaces
RemainderUnits == ScaledValue(result.remainder, args.decimalPlaces)

\* slot i (from 1) in units of 10^-decimalPlaces
SlotUnits(i) == ScaledValue(result.results[i], args.decimalPlaces)

\* C27: in preciseDistribute, for parts >= 1, decimalPlaces >= 1 and an amount
\* of at most decimalPlaces fraction digits, the remainder is a whole number
\* of units of 10^-decimalPlaces, of magnitude at most parts - 1 on entry and
\* one less after every iteration, so the loop ends within parts iterations
\* with the remainder zero; the slots adjusted are the first `index` ones,
\* each by one unit in the same direction, so two slots differ by at most one
\* unit, and slots and remainder always add up to the amount.
C27_DistributeLoopBounded ==
    DistributeInScope =>
        /\ IsDecimal(result.remainder)
        /\ FracLen(result.remainder) <= args.decimalPlaces
        /\ Abs(RemainderUnits) + result.index <= args.parts - 1
        /\ pc = "returned" =>
            /\ RemainderUnits = 0
            /\ result.results
                 = preciseDistribute(args.amount, args.parts, args.decimalPlaces)
        /\ Len(result.results) = args.parts
        /\ \A i \in 1..args.parts :
               /\ IsDecimal(result.results[i])
               /\ FracLen(result.results[i]) <= args.decimalPlaces
        /\ \E s \in {0 - 1, 1} :
               \A i \in 1..args.parts :
                   SlotUnits(i) = SlotUnits(args.parts)
                                    + (IF i <= result.index THEN s ELSE 0)
        /\ \A i, j \in 1..args.parts : Abs(SlotUnits(i) - SlotUnits(j)) <= 1
        /\ SumScaled(result.results, args.decimalPlaces) + RemainderUnits
             = ScaledValue(args.amount, args.decimalPlaces)

\* '0.50' in four parts to two places: the base is '0.12', the remainder two
\* units, and two iterations raise the first two slots
C27_Witness ==
    /\ pc = "returned"
    /\ args.amount = <<"0", ".", "5", "0">>
    /\ args.parts = 4
    /\ args.decimalPlaces = 2
    /\ result.index = 2
    /\ result.results = << <<"0", ".", "1", "3">>, <<"0", ".", "1", "3">>,
                           <<"0", ".", "1", "2">>, <<"0", ".", "1", "2">> >>

\* C28: preciseDivide rejects every divisor of value zero, whatever its
\* spelling ('0', '-0', '0.0', '0.00', '00'), at its zero-divisor guard: it
\* throws Error('Division by zero') and no BigInt division is attempted.
C28_DivideGuardsEveryZero ==
    (/\ pc = "preciseDivide"
     /\ ScaledValue(args.b, FracLen(args.b)) = 0) =>
        result = Throw("Error", "Division by zero")

\* C29: for a non-negative amount and a valid ratio list, every share
\* preciseAllocate returns is non-negative, and a slot whose ratio is 0 gets a
\* share of value zero, the last slot included.
C29_AllocateSharesNonNegative ==
    (/\ pc = "preciseAllocate"
     /\ ValidRatios(args.ratios)
     /\ ~HasMinus(args.amount)
     /\ ~ThrewList(result)) =>
        \A i \in 1..Len(result) :
            /\ ScaledValue(result[i], FracLen(result[i])) >= 0
            /\ args.ratios[i] = 0 =>
                   ScaledValue(result[i], FracLen(result[i])) = 0

\* a scale that holds both arguments and both results of a pair of roundings
PairScale == Max2(args.decimalPlaces, Max2(FracLen(args.x), FracLen(args.y)))

\* C30: for every mode and decimalPlaces >= 1, x <= y implies
\* preciseRound(x) <= preciseRound(y) numerically, for operands of either
\* sign, and each result is less than one unit of 10^-decimalPlaces away from
\* its argument.
C30_RoundMonotone ==
    pc = "preciseRoundPair" =>
        /\ \A i \in 1..2 : IsDecimal(result[i]) /\ FracLen(result[i]) <= PairScale
        /\ ScaledValue(args.x, PairScale) <= ScaledValue(args.y, PairScale)
               => ScaledValue(result[1], PairScale)
                      <= ScaledValue(result[2], PairScale)
        /\ Abs(ScaledValue(result[1], PairScale) - ScaledValue(args.x, PairScale))
               < Pow10(PairScale - args.decimalPlaces)
        /\ Abs(ScaledValue(result[2], PairScale) - ScaledValue(args.y, PairScale))
               < Pow10(PairScale - args.decimalPlaces)

\* '-0.09' and '0.05' to one place, HALF_EVEN: '-0.1' and, on the tie, '0.0'
C30_Witness ==
    /\ pc = "preciseRoundPair"
    /\ args.x = <<"-", "0", ".", "0", "9">>
    /\ args.y = <<"0", ".", "0", "5">>
    /\ args.decimalPlaces = 1
    /\ args.mode = "HALF_EVEN"
    /\ result = << <<"-", "0", ".", "1">>, <<"0", ".", "0">> >>

====
